---- MODULE Spec2Model ----
(***************************************************************************)
(* Agent Session Engine of Host-AI (components/LiveAgentDemo.tsx).         *)
(*                                                                         *)
(* The component keeps its state in React state cells (status, isActive,   *)
(* errorMsg, transcripts, currentInput, currentOutput) and in refs (audio  *)
(* contexts, stream, processor, recorder, nextStartTime, sources).  Every  *)
(* startSession call builds one transport connection whose callbacks are   *)
(* closures over the render in which startSession was invoked: they read   *)
(* the currentInput / currentOutput / transcripts of THAT render, while    *)
(* the functional state updates (prev => ...) act on the live state.       *)
(*                                                                         *)
(* Each handler is one action.  State updates queued by a handler are      *)
(* applied in program order; the passive effect cleanup that React runs    *)
(* when isActive flips from true to false (lines 164-168) is part of the   *)
(* action that flips it.                                                   *)
(***************************************************************************)
EXTENDS Integers, Sequences, FiniteSets, TLC

\* ---- bounds of the model -------------------------------------------------
MaxSessions == 2     \* startSession invocations
MaxText     == 2     \* characters held by one accumulator
MaxLog      == 2     \* committed transcript entries
MaxTime     == 2     \* ticks of the output context clock
MaxSources  == 2     \* buffer sources created overall
MaxSteps    == 10    \* events handled overall
NumLeads    == 2     \* leads of the generated dataset (50 in App.tsx)
NumBooked   == 1     \* of them generated as BOOKED (3 in App.tsx)
NumTop      == 1     \* of them generated with price tier $$$$ (15 in App.tsx)
MaxKb       == 4     \* snippets of a knowledge base
MaxCalls    == 2     \* invocations of selectRelevantSnippets on the same arguments
MaxEntries  == 7     \* committed transcript entries of the call that is analysed

\* ---- alphabet of transcription text --------------------------------------
Space == 0
Letter == 1
Dot == 2
\* characters carried by transcription deltas
Chars == {Letter}
\* buffer.duration of a decoded audio chunk, in clock ticks
Durations == {1}

\* text + "..." (line 474)
TruncationMarker == <<Dot, Dot, Dot>>

\* String.prototype.trim() followed by the truthiness test (lines 430, 434)
TrimNonEmpty(t) == \E i \in 1..Len(t) : t[i] # Space

\* truthiness of a string (line 473)
Truthy(t) == t # <<>>

IsPrefix(s, t) == Len(s) <= Len(t) /\ SubSeq(t, 1, Len(s)) = s

Max(a, b) == IF a >= b THEN a ELSE b

VARIABLES
  status,          \* useState 'idle' | 'connecting' | 'listening' | 'speaking' | 'error'
  isActive,        \* useState boolean
  errorMsg,        \* useState string | null
  transcripts,     \* useState TranscriptEntry[]
  currentInput,    \* useState string (human accumulator)
  currentOutput,   \* useState string (agent accumulator)
  sess,            \* one record per startSession call: closure + resources
  streamRef,       \* session whose MediaStream streamRef.current holds, 0 = null
  processorRef,    \* session whose ScriptProcessor processorRef.current holds
  mediaRecorderRef,\* session whose MediaRecorder mediaRecorderRef.current holds
  nextStartTime,   \* nextStartTimeRef.current
  sources,         \* sourcesRef.current
  stopped,         \* sources on which stop() was called, 'ended' not yet delivered
  now,             \* currentTime of outputAudioContextRef.current
  effTranscripts,  \* transcripts seen by the stopSession of the cleanup effect
  realLead,        \* activeLead && onUpdateLead: a call placed to a lead
  leadUpdates,     \* calls of onUpdateLead, in order
  scheduled,       \* history: every source passed to source.start()
  epoch,           \* history: number of interruptions that cancelled a schedule
  ended,           \* history: how the last call attempt ended, "none" since startSession
  steps,           \* history: events handled so far
  decoding,        \* onmessage handlers suspended at the await of decodeAudioData
  leads,           \* App: useState<Lead[]>
  scoreIn,         \* calculateLeadScore: its argument
  scoreOut,        \* calculateLeadScore: its result, NoScore before the call
  ragLead,         \* selectRelevantSnippets: its argument lead
  ragKb,           \* selectRelevantSnippets: its argument kb
  ragOut,          \* selectRelevantSnippets: whether it returned, and what
  ragCalls,        \* selectRelevantSnippets: invocations so far
  knowledgeBase,   \* App: useState<KnowledgeSnippet[]>
  latestLeadRef,   \* latestLeadRef.current
  summary,         \* useState string | null
  isSummarizing,   \* useState boolean
  learningStatus,  \* useState string | null
  call,            \* the render in which handleEndCall runs: what its closures see
  post,            \* processPostCall: its position and its local variables
  recorder,        \* the MediaRecorder of the call and its stop handler
  savedLeads,      \* App: what the mount effect read under 'hostai_leads'
  savedKnowledge,  \* App: what the mount effect read under 'hostai_knowledge'
  mounted          \* App: the mount effect has run

\* state of LiveAgentDemo
sessionVars == <<status, isActive, errorMsg, transcripts, currentInput, currentOutput,
          sess, streamRef, processorRef, mediaRecorderRef,
          nextStartTime, sources, stopped, now, effTranscripts, realLead,
          leadUpdates, scheduled, epoch, ended, steps, decoding>>

\* state of App
appVars == <<leads, knowledgeBase>>

\* the mount effect of App
mountVars == <<savedLeads, savedKnowledge, mounted>>

\* post-call state of LiveAgentDemo
postVars == <<latestLeadRef, summary, isSummarizing, learningStatus, call, post, recorder>>

\* one invocation of calculateLeadScore
scorerVars == <<scoreIn, scoreOut>>

\* one invocation of selectRelevantSnippets
ragVars == <<ragLead, ragKb, ragOut, ragCalls>>

vars == <<sessionVars, mountVars, appVars, scorerVars, ragVars, postVars>>

Statuses == {"idle", "connecting", "listening", "speaking", "error"}

\* inputAudioContextRef.current / outputAudioContextRef.current: assigned by
\* every startSession before its first await and never reset to null.
outputAudioContextRef == Len(sess)

Entry(r, t) == [role |-> r, text |-> t]

\* LiveAgentDemo after construction (lines 113-154)
SessionInit ==
  /\ status = "idle"
  /\ isActive = FALSE
  /\ errorMsg = "null"
  /\ transcripts = <<>>
  /\ currentInput = <<>>
  /\ currentOutput = <<>>
  /\ sess = <<>>
  /\ streamRef = 0
  /\ processorRef = 0
  /\ mediaRecorderRef = 0
  /\ nextStartTime = 0
  /\ sources = {}
  /\ stopped = {}
  /\ now = 0
  /\ effTranscripts = <<>>
  /\ realLead = TRUE
  /\ leadUpdates = <<>>
  /\ scheduled = {}
  /\ epoch = 0
  /\ ended = "none"
  /\ steps = 0
  /\ decoding = <<>>

\* ---- LeadScorer (App.tsx) --------------------------------------------------

PriceTiers == {"$$$$", "$$$", "$$", "other"}
CallStatuses == {"PENDING", "IN_PROGRESS", "COMPLETED", "FAILED", "BOOKED"}
Sentiments == {"Positive", "Neutral", "Negative", "none"}

BaseScore_Flat(priceRange) == IF priceRange = "$$$" THEN 5 ELSE 20

\* lines 21-26
BaseScore(priceRange) ==
  CASE priceRange = "$$$$" -> 40
    [] priceRange = "$$$"  -> 30
    [] priceRange = "$$"   -> 20
    [] OTHER               -> 10

StatusWeight_BookedAdds(score, st) == IF st = "BOOKED" THEN score + 50 ELSE score

\* lines 29-35
StatusWeight(score, st) ==
  CASE st = "BOOKED"      -> 100
    [] st = "COMPLETED"   -> score + 10
    [] st = "IN_PROGRESS" -> score + 20
    [] st = "PENDING"     -> score + 0
    [] st = "FAILED"      -> score - 20
    [] OTHER              -> score

SentimentModifier_Swapped(score, st, sentiment) ==
  IF st # "BOOKED" /\ sentiment = "Neutral" THEN score + 30 ELSE score

\* lines 38-44
SentimentModifier(score, st, sentiment) ==
  IF st # "BOOKED"
  THEN CASE sentiment = "Positive" -> score + 30
         [] sentiment = "Neutral"  -> score + 5
         [] sentiment = "Negative" -> score - 30
         [] OTHER                  -> score
  ELSE score

Min(a, b) == IF a <= b THEN a ELSE b

Clamp_Off(score) == score

\* line 47
Clamp(score) == Max(0, Min(100, score))

\* lines 17-48
calculateLeadScore(lead) ==
  Clamp(SentimentModifier(StatusWeight(BaseScore(lead.priceRange), lead.status),
                          lead.status, lead.sentiment))

\* ---- App: the lead collection ---------------------------------------------

LeadIds == 1..NumLeads

\* lines 76-89 (the named restaurants) and 93-106 (the rest)
BaseLead(i) ==
  IF i <= NumTop
  THEN [id |-> i, priceRange |-> "$$$$",
        status |-> IF i <= NumBooked THEN "BOOKED" ELSE "PENDING",
        sentiment |-> IF i <= NumBooked THEN "Positive" ELSE "none"]
  ELSE [id |-> i, priceRange |-> "$$$", status |-> "PENDING", sentiment |-> "none"]

WithScore(l, n) ==
  [id |-> l.id, priceRange |-> l.priceRange, status |-> l.status,
   sentiment |-> l.sentiment, score |-> n]

\* lines 51-110
generateManhattanLeads == [i \in LeadIds |-> WithScore(BaseLead(i), calculateLeadScore(BaseLead(i)))]

ScoredLead_AsPassed(updatedData) == updatedData

\* lines 160-163: { ...updatedData, score: calculateLeadScore(updatedData) }
ScoredLead(updatedData) == [updatedData EXCEPT !.score = calculateLeadScore(updatedData)]

\* ---- KnowledgeRetriever (LiveAgentDemo.tsx) --------------------------------

\* Text is a sequence of words, each in lower case or not.
Word(w) == [word |-> w, lower |-> TRUE]
Capital(w) == [word |-> w, lower |-> FALSE]

ToLowerCase_Identity(t) == t

\* String.prototype.toLowerCase
ToLowerCase(t) == [i \in DOMAIN t |-> Word(t[i].word)]

\* String.prototype.includes: w occurs in t as a contiguous run
Includes(t, w) == \E i \in 0..(Len(t) - Len(w)) : SubSeq(t, i + 1, i + Len(w)) = w

RECURSIVE Join(_)
\* Array.prototype.join(' ')
Join(texts) == IF texts = <<>> THEN <<>> ELSE Head(texts) \o Join(Tail(texts))

\* lines 58-60
FullContext(lead) ==
  LET contextText == ToLowerCase(lead.notes \o lead.cuisine \o lead.location)
      historyText == IF lead.hasTranscript THEN ToLowerCase(Join(lead.transcript)) ELSE <<>>
  IN contextText \o historyText

\* lines 63-65
keywords ==
  << <<Word("busy")>>, <<Word("manager")>>, <<Word("expensive")>>, <<Word("cost")>>,
     <<Word("price")>>, <<Word("hostess")>>, <<Word("email")>>, <<Word("send info")>>,
     <<Word("not interested")>>, <<Word("later")>> >>

\* line 74
ExactMatchBoost == 50

\* lines 73-75
RuleA(lead, snippet) ==
  IF snippet.sourceRestaurant = lead.restaurantName THEN ExactMatchBoost ELSE 0

\* lines 78-80
RuleB(lead, contentLower) ==
  IF lead.cuisine # <<>> /\ Includes(contentLower, ToLowerCase(lead.cuisine)) THEN 15 ELSE 0

RECURSIVE RuleC(_, _, _)
\* lines 83-87: keywords.forEach, from the k-th keyword on
RuleC(fullContext, contentLower, k) ==
  IF k > Len(keywords) THEN 0
  ELSE (IF Includes(fullContext, keywords[k]) /\ Includes(contentLower, keywords[k])
        THEN 10 ELSE 0)
       + RuleC(fullContext, contentLower, k + 1)

\* lines 90-95
RuleD(lead, snippet) ==
    (IF lead.status = "FAILED" /\ snippet.category = "objection_handling" THEN 5 ELSE 0)
  + (IF lead.priceRange = "$$$$" /\ snippet.category = "value_proposition" THEN 5 ELSE 0)

RuleE_None == 1 - 1

\* line 99
RuleE == 1

\* lines 68-102: the score of one snippet
SnippetScore(lead, snippet) ==
  LET contentLower == ToLowerCase(snippet.content)
  IN RuleA(lead, snippet) + RuleB(lead, contentLower)
     + RuleC(FullContext(lead), contentLower, 1) + RuleD(lead, snippet) + RuleE

\* lines 68, 101: kb.map(snippet => ({ snippet, score }))
ScoredSnippets(lead, kb) ==
  [i \in DOMAIN kb |-> [snippet |-> kb[i], score |-> SnippetScore(lead, kb[i])]]

ComesBefore_OrEqual(a, b) == a.score >= b.score

\* line 106: the comparator (a, b) => b.score - a.score is negative
ComesBefore(a, b) == a.score > b.score

RECURSIVE InsertSorted(_, _)
\* x goes behind every element that does not compare after it
InsertSorted(sorted, x) ==
  IF sorted = <<>> THEN <<x>>
  ELSE IF ComesBefore(x, Head(sorted)) THEN <<x>> \o sorted
       ELSE <<Head(sorted)>> \o InsertSorted(Tail(sorted), x)

RECURSIVE StableSort(_)
\* a stable sort by descending score
StableSort(items) ==
  IF items = <<>> THEN <<>>
  ELSE InsertSorted(StableSort(SubSeq(items, 1, Len(items) - 1)), items[Len(items)])

SortByScore_Unsorted(items) == items

\* line 106: Array.prototype.sort((a, b) => b.score - a.score)
SortByScore(items) == StableSort(items)

\* line 107
Relevant(items) == SelectSeq(items, LAMBDA item : item.score > 0)

TopN_All(items) == items

\* line 108
TopN(items) == SubSeq(items, 1, Min(3, Len(items)))

\* lines 54-110
selectRelevantSnippets(lead, kb) ==
  IF kb = <<>> THEN <<>>
  ELSE LET top == TopN(Relevant(SortByScore(ScoredSnippets(lead, kb))))
       IN [i \in DOMAIN top |-> top[i].snippet]

\* ---- initial state --------------------------------------------------------

NoScore == 0 - 1
NoLead == [priceRange |-> "other", status |-> "PENDING", sentiment |-> "none"]

\* localStorage.getItem: null when nothing is stored under the key, else the
\* stored string: empty, not JSON, or the JSON text of a value
NoItem == [kind |-> "null", value |-> <<>>]
EmptyItem == [kind |-> "empty", value |-> <<>>]
NotJson == [kind |-> "garbage", value |-> <<>>]
Json(v) == [kind |-> "json", value |-> v]

\* the mount effect has run with nothing stored
Mounted == mounted = TRUE /\ savedLeads = NoItem /\ savedKnowledge = NoItem

\* App after the mount effect with nothing stored (lines 118-141)
AppInit == leads = generateManhattanLeads /\ knowledgeBase = <<>> /\ Mounted

ScorerIdle == scoreIn = NoLead /\ scoreOut = NoScore

NotReturned == [returned |-> FALSE, snippets |-> <<>>]
NoRagLead ==
  [restaurantName |-> "none", cuisine |-> <<>>, notes |-> <<>>, location |-> <<>>,
   hasTranscript |-> FALSE, transcript |-> <<>>, status |-> "PENDING", priceRange |-> "$$$"]

RagIdle == ragLead = NoRagLead /\ ragKb = <<>> /\ ragOut = NotReturned /\ ragCalls = 0

\* no call has been placed: nothing to analyse
NoCall ==
  [lead |-> NoLead, transcripts |-> <<>>, currentInput |-> <<>>, currentOutput |-> <<>>,
   onLearn |-> FALSE]
NoAnalysis == [summary |-> "null", sentiment |-> "none", outcome |-> "none"]
PostIdle ==
  /\ latestLeadRef = NoLead
  /\ summary = "null"
  /\ isSummarizing = FALSE
  /\ learningStatus = "null"
  /\ call = NoCall
  /\ post = [pc |-> "idle", fullTranscript |-> <<>>, analysis |-> NoAnalysis]
  /\ recorder = [state |-> "none", onstop |-> <<>>]

Init == SessionInit /\ AppInit /\ ScorerIdle /\ RagIdle /\ PostIdle


\* every event of the session consumes one unit of the event budget; its
\* calls of onUpdateLead are recorded in leadUpdates
Budget ==
  /\ steps < MaxSteps
  /\ steps' = steps + 1
  /\ UNCHANGED <<mountVars, appVars, scorerVars, ragVars, postVars>>

\* an event whose handler runs to its end: it suspends no handler and resumes none
Step ==
  /\ Budget
  /\ UNCHANGED decoding

\* the audio buffers of the suspended handlers
Pending == {decoding[k] : k \in DOMAIN decoding}

\* ---- session teardown ------------------------------------------------------

\* The cells and refs stopSession reads and writes, as one value.
Cur ==
  [sess |-> sess, streamRef |-> streamRef, processorRef |-> processorRef,
   sources |-> sources, stopped |-> stopped, isActive |-> isActive,
   status |-> status]

StopRecorder_Unguarded(ss, tr) ==
  IF mediaRecorderRef # 0
  THEN [ss EXCEPT ![mediaRecorderRef].rec = "inactive",
                  ![mediaRecorderRef].onstop = <<tr>>]
  ELSE ss

\* lines 505-537: stop the recorder unless it is already inactive; the stop
\* event handler closes over the transcripts (tr) of the invoking closure.
StopRecorder(ss, tr) ==
  IF mediaRecorderRef # 0 /\ ss[mediaRecorderRef].rec # "inactive"
  THEN [ss EXCEPT ![mediaRecorderRef].rec = "inactive",
                  ![mediaRecorderRef].onstop = <<tr>>]
  ELSE ss

\* lines 539-542
DisconnectProcessor(ss, p) ==
  IF p # 0 THEN [ss EXCEPT ![p].proc = "disconnected"] ELSE ss

\* lines 543-546
StopTracks(ss, m) ==
  IF m # 0 THEN [ss EXCEPT ![m].mic = "stopped"] ELSE ss

\* lines 548-554: close() both contexts unless already closed.  A close() on a
\* context that is still closing only returns a rejected promise.
CloseContexts(ss) ==
  IF Len(ss) # 0
  THEN [ss EXCEPT ![Len(ss)].inCtx = "closed", ![Len(ss)].outCtx = "closed"]
  ELSE ss

\* lines 503-561
StopSession(st, tr) ==
  [sess |-> CloseContexts(StopTracks(DisconnectProcessor(
                StopRecorder(st.sess, tr), st.processorRef), st.streamRef)),
   streamRef |-> 0,
   processorRef |-> 0,
   sources |-> {},
   stopped |-> st.stopped \cup {x.id : x \in st.sources},
   isActive |-> FALSE,
   status |-> "idle"]

\* lines 164-168: the cleanup of the effect created in the render where
\* isActive became true runs when isActive becomes false, and calls the
\* stopSession of that render.
Cleanup(st) == IF isActive THEN StopSession(st, effTranscripts) ELSE st

Assign(st) ==
  /\ sess' = st.sess
  /\ streamRef' = st.streamRef
  /\ processorRef' = st.processorRef
  /\ sources' = st.sources
  /\ stopped' = st.stopped
  /\ isActive' = st.isActive
  /\ status' = st.status

\* ---- operator actions ------------------------------------------------------

NewSession ==
  [pc |-> "mic", capInput |-> currentInput, capOutput |-> currentOutput,
   capTranscripts |-> transcripts, inCtx |-> "running", outCtx |-> "running",
   mic |-> "none", proc |-> "none", rec |-> "none", onstop |-> <<>>]

\* lines 331-356, up to the await of getUserMedia.  The start button is
\* rendered only while !isActive (lines 799-800).
StartSession ==
  /\ ~isActive
  /\ Len(sess) < MaxSessions
  /\ status' = "connecting"
  /\ errorMsg' = "null"
  /\ transcripts' = <<>>
  /\ sess' = Append(sess, NewSession)
  /\ now' = 0
  /\ Step
  /\ ended' = "none"
  /\ UNCHANGED <<isActive, currentInput, currentOutput,
                 streamRef, processorRef, mediaRecorderRef, nextStartTime,
                 sources, stopped, effTranscripts, realLead, leadUpdates,
                 scheduled, epoch>>

\* lines 356-374: getUserMedia resolved; recorder started, transport opened.
MicGranted(s) ==
  /\ sess[s].pc = "mic"
  /\ sess' = [sess EXCEPT ![s].pc = "connecting", ![s].mic = "live",
                          ![s].rec = "recording"]
  /\ streamRef' = s
  /\ mediaRecorderRef' = s
  /\ Step
  /\ ended' = ended
  /\ UNCHANGED <<status, isActive, errorMsg, transcripts, currentInput,
                 currentOutput, processorRef, nextStartTime,
                 sources, stopped, now, effTranscripts, realLead, leadUpdates,
                 scheduled, epoch>>

CatchStatus_Idle == "idle"

\* line 499
CatchStatus == "error"

\* lines 356, 492-500: getUserMedia rejected.
MicDenied(s) ==
  /\ sess[s].pc = "mic"
  /\ sess' = [sess EXCEPT ![s].pc = "aborted"]
  /\ errorMsg' = "device"
  /\ status' = CatchStatus
  /\ Step
  /\ ended' = "denied"
  /\ UNCHANGED <<isActive, transcripts, currentInput, currentOutput, streamRef, processorRef, mediaRecorderRef,
                 nextStartTime, sources, stopped, now, effTranscripts,
                 realLead, leadUpdates, scheduled, epoch>>

\* lines 563-566; the end-call button is rendered only while isActive.
HandleEndCall ==
  /\ isActive
  /\ Assign(Cleanup(StopSession(Cur, transcripts)))
  /\ Step
  /\ ended' = "endcall"
  /\ UNCHANGED <<errorMsg, transcripts, currentInput, currentOutput,
                 mediaRecorderRef, nextStartTime, now, effTranscripts,
                 realLead, leadUpdates, scheduled, epoch>>

\* ---- transport callbacks ---------------------------------------------------

InProgress(s) == [kind |-> "open", status |-> "IN_PROGRESS", sentiment |-> "none", n |-> 0, sid |-> s]

\* lines 386-418
OnOpen(s) ==
  /\ sess[s].pc = "connecting"
  /\ status' = "listening"
  /\ isActive' = TRUE
  /\ leadUpdates' = IF realLead THEN Append(leadUpdates, InProgress(s)) ELSE leadUpdates
  /\ IF outputAudioContextRef # 0 /\ streamRef # 0
     THEN /\ sess' = [sess EXCEPT ![s].pc = "open", ![s].proc = "connected"]
          /\ processorRef' = s
     ELSE /\ sess' = [sess EXCEPT ![s].pc = "open"]
          /\ processorRef' = processorRef
  /\ effTranscripts' = IF isActive THEN effTranscripts ELSE transcripts
  /\ Step
  /\ ended' = ended
  /\ UNCHANGED <<errorMsg, transcripts, currentInput, currentOutput, streamRef, mediaRecorderRef, nextStartTime,
                 sources, stopped, now, realLead, scheduled, epoch>>

\* lines 479-483, then the cleanup effect.
OnClose(s) ==
  /\ sess[s].pc \in {"connecting", "open", "failed"}
  /\ Assign(Cleanup([Cur EXCEPT !.sess = [sess EXCEPT ![s].pc = "closed"],
                                !.isActive = FALSE, !.status = "idle"]))
  /\ Step
  /\ ended' = "close"
  /\ UNCHANGED <<errorMsg, transcripts, currentInput, currentOutput, mediaRecorderRef, nextStartTime, now,
                 effTranscripts, realLead, leadUpdates, scheduled, epoch>>

\* lines 484-489, then the cleanup effect.  stopSession is the one of the
\* render in which startSession was invoked.
OnError(s) ==
  /\ sess[s].pc \in {"connecting", "open"}
  /\ errorMsg' = "connection"
  /\ Assign(Cleanup(StopSession(
        [Cur EXCEPT !.sess = [sess EXCEPT ![s].pc = "failed"], !.status = "error"],
        sess[s].capTranscripts)))
  /\ Step
  /\ ended' = "error"
  /\ UNCHANGED <<transcripts, currentInput, currentOutput,
                 mediaRecorderRef, nextStartTime, now, effTranscripts,
                 realLead, leadUpdates, scheduled, epoch>>

\* lines 507-536: the recorder's stop event, then the reader's loadend.
Heuristic(tr) ==
  IF Len(tr) > 6 THEN [kind |-> "heuristic", status |-> "COMPLETED", sentiment |-> "Positive", n |-> Len(tr)]
  ELSE IF Len(tr) < 2 THEN [kind |-> "heuristic", status |-> "FAILED", sentiment |-> "Negative", n |-> Len(tr)]
  ELSE [kind |-> "heuristic", status |-> "COMPLETED", sentiment |-> "Neutral", n |-> Len(tr)]

RecorderOnStop(s) ==
  /\ sess[s].onstop # <<>>
  /\ sess' = [sess EXCEPT ![s].onstop = <<>>]
  /\ leadUpdates' = IF realLead
                    THEN Append(leadUpdates, Heuristic(sess[s].onstop[1]) @@ [sid |-> s])
                    ELSE leadUpdates
  /\ Step
  /\ ended' = ended
  /\ UNCHANGED <<status, isActive, errorMsg, transcripts, currentInput,
                 currentOutput, streamRef, processorRef,
                 mediaRecorderRef, nextStartTime, sources, stopped, now,
                 effTranscripts, realLead, scheduled, epoch>>

\* ---- inbound messages ------------------------------------------------------

NoText == <<>>
Msg(i, o, tc, a, x) ==
  [inputT |-> i, outputT |-> o, turnComplete |-> tc, audio |-> a, interrupted |-> x]

\* serverContent of a LiveServerMessage, one part per message
Messages ==
       {Msg(<<Letter>>, NoText, FALSE, 0, FALSE)}
  \cup {Msg(NoText, <<c>>, FALSE, 0, FALSE) : c \in Chars}
  \cup {Msg(NoText, NoText, TRUE, 0, FALSE)}
  \cup {Msg(NoText, NoText, FALSE, d, FALSE) : d \in Durations}
  \cup {Msg(NoText, NoText, FALSE, 0, TRUE)}

\* lines 423, 426: prev => prev + delta
AppendDelta(acc, d) == acc \o d

TurnCommit_Overwrite(log, cin, cout) ==
  IF TrimNonEmpty(cin) \/ TrimNonEmpty(cout)
  THEN (IF TrimNonEmpty(cin) THEN <<Entry("user", cin)>> ELSE <<>>)
       \o (IF TrimNonEmpty(cout) THEN <<Entry("model", cout)>> ELSE <<>>)
  ELSE log

\* lines 430-437: the entries a turnComplete commits; cin and cout are the
\* currentInput / currentOutput the handler's closure reads.
TurnCommit(log, cin, cout) ==
  log \o (IF TrimNonEmpty(cin) THEN <<Entry("user", cin)>> ELSE <<>>)
      \o (IF TrimNonEmpty(cout) THEN <<Entry("model", cout)>> ELSE <<>>)

\* lines 432, 436: the accumulator is cleared when its commit branch is taken
TurnClear(acc, c) == IF TrimNonEmpty(c) THEN <<>> ELSE acc

\* line 445
StartTime(ns, t) == Max(ns, t)

AdvanceClock_Stuck(ns, d) == ns

\* line 462
AdvanceClock(ns, d) == ns + d

ResetClock_Stale == nextStartTime

\* line 470
ResetClock == 0

\* lines 473-476
InterruptCommit(log, cout) ==
  IF Truthy(cout) THEN Append(log, Entry("model", cout \o TruncationMarker)) ELSE log

InterruptClear(acc, c) == IF Truthy(c) THEN <<>> ELSE acc

\* lines 419-478.  The continuation after the await of decodeAudioData runs
\* before any other event is dispatched.
OnMessage(s, m) ==
  LET cin  == sess[s].capInput
      cout == sess[s].capOutput
      in1  == AppendDelta(currentInput, m.inputT)
      out1 == AppendDelta(currentOutput, m.outputT)
      tr1  == IF m.turnComplete THEN TurnCommit(transcripts, cin, cout) ELSE transcripts
      in2  == IF m.turnComplete THEN TurnClear(in1, cin) ELSE in1
      out2 == IF m.turnComplete THEN TurnClear(out1, cout) ELSE out1
      hasAudio == m.audio # 0 /\ outputAudioContextRef # 0
      \* line 451: outputNode belongs to the context of session s; connecting
      \* a source of another context to it throws InvalidAccessError
      throws == hasAudio /\ s # outputAudioContextRef
      played == hasAudio /\ ~throws
      ns1  == IF hasAudio THEN StartTime(nextStartTime, now) ELSE nextStartTime
      src  == [id |-> Cardinality(scheduled) + 1, ctx |-> s, start |-> ns1,
               dur |-> m.audio, epoch |-> epoch]
      ns2  == IF played THEN AdvanceClock(ns1, m.audio) ELSE ns1
      srcs == IF played THEN sources \cup {src} ELSE sources
      sch  == IF played THEN scheduled \cup {src} ELSE scheduled
      st1  == IF hasAudio THEN "speaking" ELSE status
      intr == m.interrupted /\ ~throws
  IN
  /\ sess[s].pc = "open"
  /\ Len(in1) <= MaxText /\ Len(out1) <= MaxText
  /\ hasAudio => Cardinality(scheduled) < MaxSources
  /\ currentInput' = in2
  /\ scheduled' = sch
  /\ IF intr
     THEN /\ transcripts' = InterruptCommit(tr1, cout)
          /\ currentOutput' = InterruptClear(out2, cout)
          /\ stopped' = stopped \cup {x.id : x \in srcs}
          /\ sources' = {}
          /\ nextStartTime' = ResetClock
          /\ status' = "listening"
          /\ epoch' = IF \E x \in sch \cup Pending : x.epoch = epoch THEN epoch + 1 ELSE epoch
     ELSE /\ transcripts' = tr1
          /\ currentOutput' = out2
          /\ stopped' = stopped
          /\ sources' = srcs
          /\ nextStartTime' = ns2
          /\ status' = st1
          /\ epoch' = epoch
  /\ Len(transcripts') <= MaxLog
  /\ Step
  /\ ended' = ended
  /\ UNCHANGED <<isActive, errorMsg, sess, streamRef,
                 processorRef, mediaRecorderRef, now, effTranscripts,
                 realLead, leadUpdates>>

\* ---- playback --------------------------------------------------------------

\* lines 457-460
EndedStatus(srcs, st) == IF srcs = {} THEN "listening" ELSE st

\* a source that played to its end on the running output context
SourceEnded(x) ==
  /\ x \in sources
  /\ x.ctx = outputAudioContextRef
  /\ sess[x.ctx].outCtx = "running"
  /\ now >= x.start + x.dur
  /\ sources' = sources \ {x}
  /\ status' = EndedStatus(sources', status)
  /\ Step
  /\ ended' = ended
  /\ UNCHANGED <<isActive, errorMsg, transcripts, currentInput, currentOutput, sess, streamRef, processorRef,
                 mediaRecorderRef, nextStartTime, stopped, now,
                 effTranscripts, realLead, leadUpdates, scheduled, epoch>>

\* the 'ended' event of a source on which stop() was called (lines 468, 556)
StoppedSourceEnded(i) ==
  /\ i \in stopped
  /\ stopped' = stopped \ {i}
  /\ status' = EndedStatus(sources, status)
  /\ Step
  /\ ended' = ended
  /\ UNCHANGED <<isActive, errorMsg, transcripts, currentInput, currentOutput, sess, streamRef, processorRef,
                 mediaRecorderRef, nextStartTime, sources, now,
                 effTranscripts, realLead, leadUpdates, scheduled, epoch>>

\* the clock of the output context advances while the context runs
Tick ==
  /\ outputAudioContextRef # 0
  /\ sess[outputAudioContextRef].outCtx = "running"
  /\ now < MaxTime
  /\ now' = now + 1
  /\ Step
  /\ ended' = ended
  /\ UNCHANGED <<status, isActive, errorMsg, transcripts, currentInput,
                 currentOutput, sess, streamRef, processorRef,
                 mediaRecorderRef, nextStartTime, sources, stopped,
                 effTranscripts, realLead, leadUpdates, scheduled, epoch>>

Sids == 1..Len(sess)

Next ==
  \/ StartSession
  \/ \E s \in Sids : MicGranted(s)
  \/ \E s \in Sids : MicDenied(s)
  \/ \E s \in Sids : OnOpen(s)
  \/ \E s \in Sids : \E m \in Messages : OnMessage(s, m)
  \/ \E s \in Sids : OnClose(s)
  \/ \E s \in Sids : OnError(s)
  \/ HandleEndCall
  \/ \E s \in Sids : RecorderOnStop(s)
  \/ \E x \in sources : SourceEnded(x)
  \/ \E i \in stopped : StoppedSourceEnded(i)
  \/ Tick

Spec == Init /\ [][Next]_vars

\* ---- audio messages across the await of decodeAudioData --------------------

\* The first session of a fresh component, opened: the state after
\* StartSession, MicGranted(1) and OnOpen(1).
InitDecode ==
  /\ status = "listening"
  /\ isActive = TRUE
  /\ errorMsg = "null"
  /\ transcripts = <<>>
  /\ currentInput = <<>>
  /\ currentOutput = <<>>
  /\ sess = <<[pc |-> "open", capInput |-> <<>>, capOutput |-> <<>>,
               capTranscripts |-> <<>>, inCtx |-> "running", outCtx |-> "running",
               mic |-> "live", proc |-> "connected", rec |-> "recording",
               onstop |-> <<>>]>>
  /\ streamRef = 1
  /\ processorRef = 1
  /\ mediaRecorderRef = 1
  /\ nextStartTime = 0
  /\ sources = {}
  /\ stopped = {}
  /\ now = 0
  /\ effTranscripts = <<>>
  /\ realLead = TRUE
  /\ leadUpdates = <<InProgress(1)>>
  /\ scheduled = {}
  /\ epoch = 0
  /\ ended = "none"
  /\ steps = 3
  /\ decoding = <<>>
  /\ AppInit /\ ScorerIdle /\ RagIdle /\ PostIdle

\* buffers that have arrived so far
Arrived == Cardinality(scheduled) + Len(decoding)

\* lines 441-446, up to the await: a message that carries audio only
AudioArrives(s, d) ==
  /\ sess[s].pc = "open"
  /\ outputAudioContextRef # 0
  /\ Arrived < MaxSources
  /\ status' = "speaking"
  /\ nextStartTime' = StartTime(nextStartTime, now)
  /\ decoding' = Append(decoding, [id |-> Arrived + 1, ctx |-> s, dur |-> d,
                                    epoch |-> epoch])
  /\ Budget
  /\ UNCHANGED <<isActive, errorMsg, transcripts, currentInput, currentOutput,
                 sess, streamRef, processorRef, mediaRecorderRef, sources,
                 stopped, now, effTranscripts, realLead, leadUpdates, scheduled,
                 epoch, ended>>

\* the source the resumed handler creates and starts (lines 447-461)
Source(h) ==
  [id |-> h.id, ctx |-> h.ctx, start |-> nextStartTime, dur |-> h.dur,
   epoch |-> h.epoch]

\* lines 446-464, from the await on.  decodeAudioData awaits nothing, so the
\* handlers resume in the order in which they were suspended.
Decoded ==
  /\ decoding # <<>>
  /\ decoding' = Tail(decoding)
  /\ IF Head(decoding).ctx = outputAudioContextRef
     THEN /\ scheduled' = scheduled \cup {Source(Head(decoding))}
          /\ sources' = sources \cup {Source(Head(decoding))}
          /\ nextStartTime' = AdvanceClock(nextStartTime, Head(decoding).dur)
     ELSE UNCHANGED <<scheduled, sources, nextStartTime>>
  /\ Budget
  /\ UNCHANGED <<status, isActive, errorMsg, transcripts, currentInput,
                 currentOutput, sess, streamRef, processorRef, mediaRecorderRef,
                 stopped, now, effTranscripts, realLead, leadUpdates, epoch, ended>>

NextDecode ==
  \/ \E s \in Sids : \E d \in Durations : AudioArrives(s, d)
  \/ Decoded
  \/ \E s \in Sids : \E m \in Messages : m.interrupted /\ OnMessage(s, m)
  \/ \E x \in sources : SourceEnded(x)
  \/ \E i \in stopped : StoppedSourceEnded(i)
  \/ Tick

SpecDecode == InitDecode /\ [][NextDecode]_vars

\* ---- App: lead updates and dataset reset ----------------------------------

\* id of the test-mode lead of LiveAgentDemo (line 182), not in the collection
TestLeadId == 0

\* the price tier a caller passes: callers spread the lead they were given
\* (lines 271, 391, 526) and no code path changes a price tier
PriceOf(i) == IF i \in LeadIds THEN BaseLead(i).priceRange ELSE "$$$"

\* score values a caller passes: the lead's old score or the literal 100 (line 275)
PassedScores == {0, 100}

\* the arguments of onUpdateLead
Updates ==
  {[id |-> i, priceRange |-> PriceOf(i), status |-> st, sentiment |-> se, score |-> n] :
     i \in LeadIds \cup {TestLeadId}, st \in CallStatuses, se \in Sentiments,
     n \in PassedScores}

ReplaceLead_Upsert(prev, scoredLead) ==
  IF \E k \in DOMAIN prev : prev[k].id = scoredLead.id
    THEN [k \in DOMAIN prev |-> IF prev[k].id = scoredLead.id THEN scoredLead ELSE prev[k]]
    ELSE Append(prev, scoredLead)

\* line 165: prev.map(l => l.id === scoredLead.id ? scoredLead : l)
ReplaceLead(prev, scoredLead) ==
  [k \in DOMAIN prev |-> IF prev[k].id = scoredLead.id THEN scoredLead ELSE prev[k]]

\* lines 159-166
HandleUpdateLead(updatedData) ==
  /\ leads' = ReplaceLead(leads, ScoredLead(updatedData))
  /\ UNCHANGED <<knowledgeBase, sessionVars, mountVars, scorerVars, ragVars, postVars>>

\* lines 172-181, the operator having confirmed
HandleResetData ==
  /\ leads' = generateManhattanLeads
  /\ knowledgeBase' = <<>>
  /\ UNCHANGED <<sessionVars, mountVars, scorerVars, ragVars, postVars>>

NextApp ==
  \/ \E u \in Updates : HandleUpdateLead(u)
  \/ HandleResetData

SpecApp == Init /\ [][NextApp]_vars

\* ---- LeadScorer applied to one lead ---------------------------------------

ScorerInputs == [priceRange : PriceTiers, status : CallStatuses, sentiment : Sentiments]

InitScorer ==
  /\ SessionInit
  /\ AppInit
  /\ RagIdle
  /\ PostIdle
  /\ scoreIn \in ScorerInputs
  /\ scoreOut = NoScore

Score ==
  /\ scoreOut = NoScore
  /\ scoreOut' = calculateLeadScore(scoreIn)
  /\ UNCHANGED <<scoreIn, sessionVars, mountVars, appVars, ragVars, postVars>>

NextScorer == Score

SpecScorer == InitScorer /\ [][NextScorer]_vars

\* ---- KnowledgeRetriever applied to one lead and one knowledge base ---------

\* leads: one restaurant, with notes and call history that do or do not
\* mention vocabulary keywords, retried or not, top tier or not
RagLeads ==
  {[restaurantName |-> "Le Bernardin", cuisine |-> <<Capital("french")>>,
    notes |-> n, location |-> <<Capital("manhattan")>>,
    hasTranscript |-> h # <<>>, transcript |-> h, status |-> st, priceRange |-> p] :
     n \in {<<>>, <<Capital("busy")>>,
            <<Word("busy"), Word("manager"), Word("cost"), Word("price"), Word("email")>>},
     h \in {<<>>, << <<Word("too")>>, <<Capital("expensive")>> >>},
     st \in {"PENDING", "FAILED"},
     p \in {"$$$", "$$$$"}}

Snippet(i, cat, src, text) ==
  [id |-> i, category |-> cat, sourceRestaurant |-> src, content |-> text]

\* the snippets a knowledge base is drawn from
SnippetPool ==
  {Snippet(1, "closing_technique", "Le Bernardin", <<Word("thanks")>>),
   Snippet(2, "value_proposition", "Le Bernardin", <<Word("french"), Word("thanks")>>),
   Snippet(3, "objection_handling", "Per Se",
           <<Word("busy"), Word("manager"), Word("cost"), Word("price"), Word("email"),
             Word("expensive")>>),
   Snippet(4, "objection_handling", "Per Se", <<Capital("busy")>>),
   Snippet(5, "value_proposition", "Per Se", <<Capital("french"), Word("price")>>),
   Snippet(6, "closing_technique", "Per Se", <<Word("later")>>)}

\* knowledge bases: snippets with distinct ids, in any order
KnowledgeBases ==
  {kb \in UNION {[1..n -> SnippetPool] : n \in 0..MaxKb} :
     \A i \in DOMAIN kb : \A j \in DOMAIN kb : i # j => kb[i].id # kb[j].id}

InitRag ==
  /\ SessionInit
  /\ AppInit
  /\ ScorerIdle
  /\ PostIdle
  /\ ragLead \in RagLeads
  /\ ragKb \in KnowledgeBases
  /\ ragOut = NotReturned
  /\ ragCalls = 0

kbAfterCall_SortedInPlace(lead, kb) ==
  LET sorted == SortByScore(ScoredSnippets(lead, kb))
  IN [i \in DOMAIN kb |-> sorted[i].snippet]

\* lines 68, 105-108: map, filter and slice return new arrays and sort
\* reorders the array map returned, so the caller's kb is as it was
kbAfterCall(lead, kb) == kb

\* one invocation: the result, and what it leaves of its arguments
Invoke ==
  /\ ragCalls' = ragCalls + 1
  /\ ragOut' = [returned |-> TRUE, snippets |-> selectRelevantSnippets(ragLead, ragKb)]
  /\ ragKb' = kbAfterCall(ragLead, ragKb)
  /\ UNCHANGED <<ragLead, sessionVars, mountVars, appVars, scorerVars, postVars>>

\* line 200: generateSystemInstruction retrieves for the lead of the call
Retrieve == ragCalls = 0 /\ Invoke

NextRag == Retrieve

SpecRag == InitRag /\ [][NextRag]_vars

\* line 200 again: a later startSession with the same lead and knowledge base
RetrieveAgain == ragCalls \in 1..(MaxCalls - 1) /\ Invoke

NextRagRepeat == Retrieve \/ RetrieveAgain

SpecRagRepeat == InitRag /\ [][NextRagRepeat]_vars

\* ---- PostCallAnalyzer (LiveAgentDemo.tsx) ----------------------------------

\* lines 235-237: the committed entries, then the partials that hold text
FullTranscript(log, cin, cout) ==
  log \o (IF TrimNonEmpty(cin) THEN <<Entry("user", cin)>> ELSE <<>>)
      \o (IF TrimNonEmpty(cout) THEN <<Entry("model", cout)>> ELSE <<>>)

\* the parsed response of the classification request (line 264)
Analyses ==
  [summary : {"text"}, sentiment : {"Positive", "Neutral", "Negative"},
   outcome : {"BOOKED", "COMPLETED", "FAILED"}]

\* lines 271-276
BookedUpdate(currentLeadState, analysis) ==
  [currentLeadState EXCEPT !.status = "BOOKED", !.sentiment = analysis.sentiment,
                           !.score = 100]

ClassificationUpdates_AnyOutcome(analysis, currentLeadState) ==
  IF currentLeadState # NoLead
  THEN <<[BookedUpdate(currentLeadState, analysis) EXCEPT !.status = analysis.outcome]>>
  ELSE <<>>

\* lines 269-277: the calls of onUpdateLead the classification stage makes
ClassificationUpdates(analysis, currentLeadState) ==
  IF analysis.outcome = "BOOKED" /\ currentLeadState # NoLead
  THEN <<BookedUpdate(currentLeadState, analysis)>>
  ELSE <<>>

\* App.handleUpdateLead applied to the updates, at most one
ApplyUpdates(prev, updates) ==
  IF updates = <<>> THEN prev ELSE ReplaceLead(prev, ScoredLead(updates[1]))

SummaryOnFailure_Unset == "null"

\* line 280
SummaryOnFailure == "Analysis temporarily unavailable."

ExtractionGate_NoThreshold(fullTranscript, onLearn) == onLearn

\* line 284
ExtractionGate(fullTranscript, onLearn) == Len(fullTranscript) > 4 /\ onLearn

ExtractionAfterFailure_Skipped(fullTranscript, onLearn) == FALSE

\* lines 278-284: the catch block returns normally, so the extraction stage
\* is reached as after a successful classification
ExtractionAfterFailure(fullTranscript, onLearn) == ExtractionGate(fullTranscript, onLearn)

\* lines 284-285, or line 328 when the extraction stage is not attempted
ToExtraction(attempted) ==
  IF attempted
  THEN /\ learningStatus' = "Analyzing call for new training data..."
       /\ isSummarizing' = isSummarizing
  ELSE /\ learningStatus' = learningStatus
       /\ isSummarizing' = FALSE

\* the parsed response of the extraction request (line 308)
TrainingData ==
  [found : BOOLEAN, category : {"objection_handling", "closing_technique"},
   content : {<<>>, <<Word("thanks")>>}]

\* restaurantName of the generated lead i (App.tsx, lines 77 and 96)
TopNames == <<"Le Bernardin", "Per Se", "Eleven Madison Park", "Carbone">>
RestaurantName(i) ==
  IF i <= NumTop /\ i <= Len(TopNames) THEN TopNames[i] ELSE "Manhattan Bistro"

\* lines 310-316; the id is the time of creation
NewSnippet(trainingData, effectiveLead) ==
  Snippet(0, trainingData.category, RestaurantName(effectiveLead.id), trainingData.content)

Learn_AtBack(prev, snippet) == Append(prev, snippet)

\* App.handleLearnFromCall (App.tsx, line 169)
Learn(prev, snippet) == <<snippet>> \o prev

\* lines 515-533: the update of the recorder's stop handler
HeuristicUpdate(activeLead, tr) ==
  [activeLead EXCEPT !.status = Heuristic(tr).status,
                     !.sentiment = Heuristic(tr).sentiment,
                     !.transcript = tr,
                     !.recording = "data"]

\* a committed transcript of n entries
Transcript(n) == [i \in 1..n |-> Entry(IF i % 2 = 1 THEN "model" ELSE "user", <<Letter>>)]

\* leads a call can be placed to: the controls of a BOOKED lead show no
\* start button (lines 788-799)
Callable == {i \in LeadIds : BaseLead(i).status # "BOOKED"}

\* the lead of a call in progress: onopen has set it IN_PROGRESS (line 391)
CallLead(i, se) ==
  ScoredLead([id |-> i, priceRange |-> PriceOf(i), status |-> "IN_PROGRESS",
              sentiment |-> se, score |-> 0, transcript |-> <<>>, recording |-> "none"])

\* what the knowledge base holds from earlier calls
StoredKnowledge ==
  {<<>>,
   <<Snippet(1, "closing_technique", "Le Bernardin", <<Word("thanks")>>)>>,
   <<Snippet(2, "value_proposition", "Le Bernardin", <<Word("french"), Word("thanks")>>),
     Snippet(1, "closing_technique", "Le Bernardin", <<Word("thanks")>>)>>}

\* a call to a lead of the collection is in progress and rendered
InitPostCall ==
  /\ SessionInit
  /\ ScorerIdle
  /\ RagIdle
  /\ \E i \in Callable : \E se \in {"none", "Negative"} :
        /\ leads = ReplaceLead(generateManhattanLeads, CallLead(i, se))
        /\ latestLeadRef = CallLead(i, se)
        /\ call \in [lead : {CallLead(i, se)},
                     transcripts : {Transcript(n) : n \in 0..MaxEntries},
                     currentInput : {<<>>, <<Letter>>},
                     currentOutput : {<<>>, <<Space>>, <<Letter>>},
                     onLearn : BOOLEAN]
  /\ knowledgeBase \in StoredKnowledge
  /\ Mounted
  /\ summary = "null"
  /\ isSummarizing = FALSE
  /\ learningStatus = "null"
  /\ post = [pc |-> "idle", fullTranscript |-> <<>>, analysis |-> NoAnalysis]
  /\ recorder = [state |-> "recording", onstop |-> <<>>]

\* lines 563-566: stopSession arms the recorder's stop handler (lines 505-537),
\* then processPostCall runs up to its first await (lines 233-262)
EndCall ==
  /\ post.pc = "idle"
  /\ recorder.state = "recording"
  /\ recorder' = [state |-> "inactive",
                  onstop |-> <<[transcripts |-> call.transcripts, activeLead |-> call.lead]>>]
  /\ LET full == FullTranscript(call.transcripts, call.currentInput, call.currentOutput)
     IN IF Len(full) = 0
        THEN /\ post' = [post EXCEPT !.pc = "done"]
             /\ UNCHANGED <<isSummarizing, summary, learningStatus>>
        ELSE /\ post' = [post EXCEPT !.pc = "classifying", !.fullTranscript = full]
             /\ isSummarizing' = TRUE
             /\ summary' = "null"
             /\ learningStatus' = "null"
  /\ UNCHANGED <<appVars, latestLeadRef, call, sessionVars, mountVars, scorerVars, ragVars>>

\* lines 264-277, then 283-285 or 328: the classification request resolved
\* with a response that parses
ClassificationResponse(analysis) ==
  LET attempted == ExtractionGate(post.fullTranscript, call.onLearn)
  IN
  /\ post.pc = "classifying"
  /\ summary' = analysis.summary
  /\ leads' = ApplyUpdates(leads, ClassificationUpdates(analysis, latestLeadRef))
  /\ post' = [post EXCEPT !.pc = IF attempted THEN "extracting" ELSE "done",
                          !.analysis = analysis]
  /\ ToExtraction(attempted)
  /\ UNCHANGED <<knowledgeBase, latestLeadRef, call, recorder,
                 sessionVars, mountVars, scorerVars, ragVars>>

\* lines 278-281, then 283-285 or 328: the request was rejected or its
\* response does not parse
ClassificationFailure ==
  LET attempted == ExtractionAfterFailure(post.fullTranscript, call.onLearn)
  IN
  /\ post.pc = "classifying"
  /\ summary' = SummaryOnFailure
  /\ post' = [post EXCEPT !.pc = IF attempted THEN "extracting" ELSE "done",
                          !.analysis = [NoAnalysis EXCEPT !.outcome = "failed"]]
  /\ ToExtraction(attempted)
  /\ UNCHANGED <<appVars, latestLeadRef, call, recorder, sessionVars, mountVars, scorerVars, ragVars>>

\* lines 308-321, then 328: the extraction request resolved with a response
\* that parses
ExtractionResponse(trainingData) ==
  /\ post.pc = "extracting"
  /\ IF trainingData.found /\ Truthy(trainingData.content)
     THEN /\ knowledgeBase' = Learn(knowledgeBase, NewSnippet(trainingData, call.lead))
          /\ learningStatus' = "Success! New strategy added to Knowledge Base."
     ELSE /\ knowledgeBase' = knowledgeBase
          /\ learningStatus' = "No new strategies detected."
  /\ isSummarizing' = FALSE
  /\ post' = [post EXCEPT !.pc = "done"]
  /\ UNCHANGED <<leads, latestLeadRef, summary, call, recorder,
                 sessionVars, mountVars, scorerVars, ragVars>>

\* lines 322-325, then 328
ExtractionFailure ==
  /\ post.pc = "extracting"
  /\ learningStatus' = "Training skipped due to API timeout."
  /\ isSummarizing' = FALSE
  /\ post' = [post EXCEPT !.pc = "done"]
  /\ UNCHANGED <<appVars, latestLeadRef, summary, call, recorder,
                 sessionVars, mountVars, scorerVars, ragVars>>

\* lines 507-536: the recorder's stop event, then the reader's loadend
RecordingSaved ==
  /\ recorder.onstop # <<>>
  /\ recorder' = [recorder EXCEPT !.onstop = <<>>]
  /\ leads' = ReplaceLead(leads, ScoredLead(HeuristicUpdate(recorder.onstop[1].activeLead,
                                                            recorder.onstop[1].transcripts)))
  /\ UNCHANGED <<knowledgeBase, latestLeadRef, summary, isSummarizing, learningStatus,
                 call, post, sessionVars, mountVars, scorerVars, ragVars>>

\* lines 120-122: after the render that follows a change of the lead
RefEffect ==
  /\ \E k \in DOMAIN leads :
        /\ leads[k].id = call.lead.id
        /\ latestLeadRef # leads[k]
        /\ latestLeadRef' = leads[k]
  /\ UNCHANGED <<appVars, summary, isSummarizing, learningStatus, call, post, recorder,
                 sessionVars, mountVars, scorerVars, ragVars>>

NextPostCall ==
  \/ EndCall
  \/ \E analysis \in Analyses : ClassificationResponse(analysis)
  \/ ClassificationFailure
  \/ \E trainingData \in TrainingData : ExtractionResponse(trainingData)
  \/ ExtractionFailure
  \/ RecordingSaved
  \/ RefEffect

SpecPostCall == InitPostCall /\ [][NextPostCall]_vars

\* the post-call analysis with the dataset reset of the settings view
NextKnowledge == NextPostCall \/ HandleResetData

SpecKnowledge == InitPostCall /\ [][NextKnowledge]_vars

\* ---- App: loading the stored data at mount ----------------------------------

\* if (saved): null and the empty string are falsy
Stored(item) == item.kind \notin {"null", "empty"}

\* JSON.parse: the value, or a SyntaxError
JsonParse(item) ==
  IF item.kind = "json" THEN [ok |-> TRUE, value |-> item.value]
                        ELSE [ok |-> FALSE, value |-> <<>>]

LoadLeads_NoFallback(item) ==
  IF Stored(item)
  THEN IF JsonParse(item).ok THEN JsonParse(item).value ELSE <<>>
  ELSE generateManhattanLeads

\* lines 123-132
LoadLeads(item) ==
  IF Stored(item)
  THEN IF JsonParse(item).ok THEN JsonParse(item).value ELSE generateManhattanLeads
  ELSE generateManhattanLeads

\* lines 134-140
LoadKnowledge(item, prev) ==
  IF Stored(item)
  THEN IF JsonParse(item).ok THEN JsonParse(item).value ELSE <<>>
  ELSE prev

\* collections the save effect (lines 144-148) has stored: the generated
\* leads, or those leads after an update
SavedCollections ==
  {ReplaceLead(generateManhattanLeads, ScoredLead(u)) : u \in Updates}

\* App after construction (lines 113-116), over what the browser has stored
InitLoad ==
  /\ SessionInit
  /\ ScorerIdle
  /\ RagIdle
  /\ PostIdle
  /\ leads = <<>>
  /\ knowledgeBase = <<>>
  /\ mounted = FALSE
  /\ savedLeads \in {NoItem, EmptyItem, NotJson} \cup {Json(v) : v \in SavedCollections}
  /\ savedKnowledge \in {NoItem, EmptyItem, NotJson} \cup {Json(v) : v \in StoredKnowledge}

\* lines 119-141
Mount ==
  /\ ~mounted
  /\ mounted' = TRUE
  /\ leads' = LoadLeads(savedLeads)
  /\ knowledgeBase' = LoadKnowledge(savedKnowledge, knowledgeBase)
  /\ UNCHANGED <<savedLeads, savedKnowledge, sessionVars, scorerVars, ragVars, postVars>>

NextLoad == Mount

SpecLoad == InitLoad /\ [][NextLoad]_vars

\* ---- LiveAgentDemo and App: the lead of a call ------------------------------

\* a lead of the collection a call is placed to: not called yet, or called
\* before with the outcome of that call
Prospects ==
  {ScoredLead([id |-> i, priceRange |-> PriceOf(i), status |-> o[1], sentiment |-> o[2],
               score |-> 0, transcript |-> <<>>, recording |-> "none"]) :
     i \in Callable,
     o \in {<<"PENDING", "none">>, <<"FAILED", "Negative">>, <<"COMPLETED", "Positive">>}}

\* lines 180-194: the lead of startTestMode
TestLead ==
  [id |-> TestLeadId, priceRange |-> "$$$", status |-> "PENDING", sentiment |-> "none",
   score |-> 85, transcript |-> <<>>, recording |-> "none"]

\* the activeLead prop the closures of startSession see: null in test mode,
\* where effectiveLead is the test lead (line 116)
ActiveLead == IF realLead THEN call.lead ELSE NoLead

OpenUpdates_Unmarked(activeLead) ==
  IF activeLead # NoLead THEN <<activeLead>> ELSE <<>>

\* lines 390-392: the calls of onUpdateLead that onopen makes
OpenUpdates(activeLead) ==
  IF activeLead # NoLead THEN <<[activeLead EXCEPT !.status = "IN_PROGRESS"]>> ELSE <<>>

\* lines 525-534: the calls of onUpdateLead that the recorder's stop handler makes
TeardownUpdates(activeLead, tr) ==
  IF activeLead # NoLead THEN <<HeuristicUpdate(activeLead, tr)>> ELSE <<>>

\* startSession has run to line 374 for the selected lead or for the test
\* lead: microphone granted, recorder started, transport connecting
InitCall ==
  /\ status = "connecting"
  /\ isActive = FALSE
  /\ errorMsg = "null"
  /\ transcripts = <<>>
  /\ currentInput = <<>>
  /\ currentOutput = <<>>
  /\ sess = <<[pc |-> "connecting", capInput |-> <<>>, capOutput |-> <<>>,
               capTranscripts |-> <<>>, inCtx |-> "running", outCtx |-> "running",
               mic |-> "live", proc |-> "none", rec |-> "recording",
               onstop |-> <<>>]>>
  /\ streamRef = 1
  /\ processorRef = 0
  /\ mediaRecorderRef = 1
  /\ nextStartTime = 0
  /\ sources = {}
  /\ stopped = {}
  /\ now = 0
  /\ effTranscripts = <<>>
  /\ leadUpdates = <<>>
  /\ scheduled = {}
  /\ epoch = 0
  /\ ended = "none"
  /\ steps = 2
  /\ decoding = <<>>
  /\ realLead \in BOOLEAN
  /\ \E lead \in (IF realLead THEN Prospects ELSE {TestLead}) :
        /\ call = [NoCall EXCEPT !.lead = lead]
        /\ latestLeadRef = lead
        /\ leads = ReplaceLead(generateManhattanLeads, lead)
  /\ knowledgeBase = <<>>
  /\ Mounted
  /\ ScorerIdle
  /\ RagIdle
  /\ summary = "null"
  /\ isSummarizing = FALSE
  /\ learningStatus = "null"
  /\ post = [pc |-> "idle", fullTranscript |-> <<>>, analysis |-> NoAnalysis]
  /\ recorder = [state |-> "none", onstop |-> <<>>]

\* lines 386-418 with App.handleUpdateLead (App.tsx, lines 159-166)
OpenCall(s) ==
  /\ sess[s].pc = "connecting"
  /\ status' = "listening"
  /\ isActive' = TRUE
  /\ leadUpdates' = leadUpdates \o OpenUpdates(ActiveLead)
  /\ leads' = ApplyUpdates(leads, OpenUpdates(ActiveLead))
  /\ IF outputAudioContextRef # 0 /\ streamRef # 0
     THEN /\ sess' = [sess EXCEPT ![s].pc = "open", ![s].proc = "connected"]
          /\ processorRef' = s
     ELSE /\ sess' = [sess EXCEPT ![s].pc = "open"]
          /\ processorRef' = processorRef
  /\ effTranscripts' = IF isActive THEN effTranscripts ELSE transcripts
  /\ steps < MaxSteps
  /\ steps' = steps + 1
  /\ UNCHANGED <<errorMsg, transcripts, currentInput, currentOutput, streamRef,
                 mediaRecorderRef, nextStartTime, sources, stopped, now, realLead,
                 scheduled, epoch, ended, decoding,
                 knowledgeBase, mountVars, scorerVars, ragVars, postVars>>

\* lines 507-536 with App.handleUpdateLead: the recorder's stop event, then
\* the reader's loadend
SaveRecording(s) ==
  /\ sess[s].onstop # <<>>
  /\ sess' = [sess EXCEPT ![s].onstop = <<>>]
  /\ leadUpdates' = leadUpdates \o TeardownUpdates(ActiveLead, sess[s].onstop[1])
  /\ leads' = ApplyUpdates(leads, TeardownUpdates(ActiveLead, sess[s].onstop[1]))
  /\ steps < MaxSteps
  /\ steps' = steps + 1
  /\ UNCHANGED <<status, isActive, errorMsg, transcripts, currentInput,
                 currentOutput, streamRef, processorRef, mediaRecorderRef,
                 nextStartTime, sources, stopped, now, effTranscripts, realLead,
                 scheduled, epoch, ended, decoding,
                 knowledgeBase, mountVars, scorerVars, ragVars, postVars>>

NextCall ==
  \/ \E s \in Sids : OpenCall(s)
  \/ \E s \in Sids : \E m \in Messages : m.audio = 0 /\ OnMessage(s, m)
  \/ HandleEndCall
  \/ \E s \in Sids : OnClose(s)
  \/ \E s \in Sids : OnError(s)
  \/ \E s \in Sids : SaveRecording(s)
  \/ RefEffect

SpecCall == InitCall /\ [][NextCall]_vars

\* ---- claims ----------------------------------------------------------------

AllowedTransitions ==
  {<<"idle", "connecting">>, <<"connecting", "listening">>,
   <<"listening", "speaking">>, <<"speaking", "listening">>,
   <<"listening", "idle">>, <<"speaking", "idle">>,
   <<"connecting", "error">>, <<"listening", "error">>, <<"speaking", "error">>}

\* C1: every change of the session state is one of the allowed transitions
\* idle->connecting, connecting->listening, listening<->speaking,
\* listening/speaking->idle, connecting/listening/speaking->error.
C1_OnlyAllowedTransitions ==
  [][status' # status => <<status, status'>> \in AllowedTransitions]_vars

\* C2: after a transport error has been handled, and until the next
\* startSession, the session state is error and an error message is set.
C2_ErrorStateAfterTransportError ==
  ended = "error" => (status = "error" /\ errorMsg # "null")

\* C3: after end-call, and until the next startSession, the session state is
\* idle and neither the transcript log nor the playback active-set changes.
C3_QuiescentAfterEndCall ==
  [][(ended = "endcall" /\ ended' = "endcall")
       => (status' = "idle" /\ transcripts' = transcripts /\ sources' = sources)]_vars

PartialOnly(m) == ~m.turnComplete /\ ~m.interrupted

\* the step is the handling of a message of the given kind by some session's
\* onmessage (a message of Messages with such a signal carries no audio, so
\* its handler runs to the end)
TurnCompleteHandled == \E s \in Sids : \E m \in Messages : m.turnComplete /\ OnMessage(s, m)
InterruptedHandled == \E s \in Sids : \E m \in Messages : m.interrupted /\ OnMessage(s, m)
PartialHandled == \E s \in Sids : \E m \in Messages : PartialOnly(m) /\ OnMessage(s, m)

NonEmptyEntry(r, t) == IF t # <<>> THEN <<Entry(r, t)>> ELSE <<>>

\* an accumulator that is empty or holds visible text (trim() keeps it)
Plain(t) == t = <<>> \/ TrimNonEmpty(t)

\* C4: a turn-complete signal appends one entry per non-empty accumulator,
\* carrying the accumulator's text, human before agent, and empties it
\* (stated for accumulators that are empty or hold visible text).
C4_TurnCompleteCommits ==
  [][(TurnCompleteHandled /\ Plain(currentInput) /\ Plain(currentOutput))
       => /\ transcripts' = transcripts \o NonEmptyEntry("user", currentInput)
                                        \o NonEmptyEntry("model", currentOutput)
          /\ currentInput' = <<>>
          /\ currentOutput' = <<>>]_vars

\* C5: an interrupted signal handled while the agent accumulator is non-empty
\* appends exactly one agent entry, the accumulated text followed by the
\* truncation marker, and empties the accumulator.
C5_InterruptionTruncates ==
  [][(InterruptedHandled /\ currentOutput # <<>>)
       => /\ transcripts' = Append(transcripts, Entry("model", currentOutput \o TruncationMarker))
          /\ currentOutput' = <<>>]_vars

\* C6: within a session every event leaves the committed log as a prefix of
\* the new log, and a message carrying only partial text leaves it unchanged.
C6_TranscriptAppendOnly ==
  [][~StartSession
       => /\ IsPrefix(transcripts, transcripts')
          /\ PartialHandled => transcripts' = transcripts]_vars

\* an interruption has appended a truncated entry to a non-empty log
C6_Witness ==
  \E i \in 2..Len(transcripts) :
     \E k \in 1..Len(transcripts[i].text) : transcripts[i].text[k] = Dot

Disjoint(a, b) == a.start + a.dur <= b.start \/ b.start + b.dur <= a.start

\* C7: two sources scheduled on the same output context with no interruption
\* between them play in disjoint intervals [start, start + duration).
C7_PlaybackNonOverlap ==
  \A a \in scheduled : \A b \in scheduled :
     (a # b /\ a.ctx = b.ctx /\ a.epoch = b.epoch) => Disjoint(a, b)

C7_Witness ==
  \E a \in scheduled : \E b \in scheduled :
     a # b /\ a.ctx = b.ctx /\ a.epoch = b.epoch /\ b.start < a.start + a.dur + 1

\* the source most recently passed to source.start()
LastScheduled(S) == CHOOSE x \in S : \A y \in S : y.id <= x.id

\* end of the buffer scheduled before x on the same output context and not
\* cancelled by an interruption since; 0 when there is none
PreviousEnd(S, x) ==
  LET P == {y \in S : y.ctx = x.ctx /\ y.epoch = x.epoch}
  IN IF P = {} THEN 0 ELSE LastScheduled(P).start + LastScheduled(P).dur

\* C8: a buffer is scheduled to start at max(end of the previously scheduled
\* buffer, current time): never before now, and exactly at the end of the
\* previous buffer when it arrives before that end.
C8_GaplessStart ==
  [][scheduled' # scheduled
       => LET x == LastScheduled(scheduled')
          IN x.start = Max(PreviousEnd(scheduled, x), now)]_vars

\* C9: an interrupted signal stops every source of the active-set, empties
\* the active-set, and leaves the scheduling clock such that a buffer arriving
\* at any later time t starts at t.
C9_InterruptionClearsPlayback ==
  [][InterruptedHandled
       => /\ sources' = {}
          /\ {x.id : x \in sources} \subseteq stopped'
          /\ \A t \in now'..MaxTime : StartTime(nextStartTime', t) = t]_vars

\* a source of the running call was stopped before its end, the active-set is
\* empty and the clock is reset: only an interruption does that, since a
\* teardown closes the output context
C9_Witness ==
  /\ outputAudioContextRef # 0
  /\ sess[outputAudioContextRef].outCtx = "running"
  /\ sources = {}
  /\ nextStartTime = 0
  /\ \E x \in scheduled :
        x.ctx = outputAudioContextRef /\ x.id \in stopped /\ x.start + x.dur > now

HeuristicUpdates(s) ==
  {i \in 1..Len(leadUpdates) : leadUpdates[i].kind = "heuristic" /\ leadUpdates[i].sid = s}

ClosureTranscripts == {transcripts, effTranscripts} \cup {sess[s].capTranscripts : s \in Sids}

Released(r) ==
  /\ r.mic \in {"none", "stopped"}
  /\ r.proc \in {"none", "disconnected"}
  /\ r.rec \in {"none", "inactive"}
  /\ r.inCtx = "closed"
  /\ r.outCtx = "closed"

\* call attempts that have ended: by a failed start, a remote close or a
\* transport error, or (every open call, while no call is active) by end-call
EndedAttempts ==
  {s \in Sids : \/ sess[s].pc \in {"aborted", "closed", "failed"}
                \/ (ended = "endcall" /\ ~isActive /\ sess[s].pc = "open")}

\* C11: once a call attempt has ended (end-call, transport error, remote close
\* or failed start) its microphone stream is stopped, its processor
\* disconnected, its recorder inactive and both its audio contexts closed, and
\* while no attempt is under way the playback active-set is empty.
C11_ResourcesReleased ==
  /\ \A s \in EndedAttempts : Released(sess[s])
  /\ (ended # "none" /\ ~isActive) => sources = {}

\* C12: a rejected getUserMedia leaves the state error with an error message,
\* opens no transport connection, starts no recorder, does not mark the
\* session active and produces no lead update, and nothing of the rejected
\* attempt changes afterwards.
C12_DeviceUnavailable ==
  [][\A s \in Sids :
        /\ MicDenied(s)
             => /\ status' = "error"
                /\ errorMsg' # "null"
                /\ sess'[s].pc = "aborted"
                /\ sess'[s].rec = "none"
                /\ sess'[s].mic = "none"
                /\ isActive' = isActive
                /\ leadUpdates' = leadUpdates
        /\ sess[s].pc = "aborted"
             => /\ sess'[s].pc = "aborted"
                /\ sess'[s].rec = "none"
                /\ sess'[s].mic = "none"
                /\ \A i \in 1..Len(leadUpdates') : leadUpdates'[i].sid # s]_vars

\* a device request was rejected and the attempt is over
C12_Witness ==
  /\ ended = "denied"
  /\ status = "error"
  /\ errorMsg = "device"
  /\ \E s \in Sids : sess[s].pc = "aborted"

\* C13: every lead of the collection has the score calculateLeadScore gives
\* for its current price tier, status and sentiment.
C13_LeadScoreInvariant ==
  \A k \in DOMAIN leads : leads[k].score = calculateLeadScore(leads[k])

\* a lead was updated to a status and sentiment whose score is neither of the
\* values a caller passes
C13_Witness ==
  \E k \in DOMAIN leads :
     /\ leads[k].status = "COMPLETED" /\ leads[k].sentiment = "Positive"
     /\ leads[k].score \notin PassedScores

\* C14: the computed score is an integer in [0,100] for every price tier
\* (an unknown one included), status and sentiment (absent included).
C14_ScoreRange ==
  scoreOut # NoScore => scoreOut \in 0..100

\* an input whose unclamped sum is negative has been scored
C14_Witness ==
  /\ scoreOut # NoScore
  /\ scoreIn.priceRange = "other" /\ scoreIn.status = "FAILED" /\ scoreIn.sentiment = "Negative"

\* C15: a BOOKED lead scores exactly 100, whatever its price tier and sentiment.
C15_BookedOverride ==
  (scoreOut # NoScore /\ scoreIn.status = "BOOKED") => scoreOut = 100

C15_Witness ==
  /\ scoreOut # NoScore
  /\ scoreIn.status = "BOOKED" /\ scoreIn.sentiment = "Negative" /\ scoreIn.priceRange = "$$"

\* the tables of the score formula as the specification states them
SpecBase(p) == IF p = "$$$$" THEN 40 ELSE IF p = "$$$" THEN 30 ELSE IF p = "$$" THEN 20 ELSE 10
SpecStatusModifier(st) ==
  IF st = "COMPLETED" THEN 10 ELSE IF st = "IN_PROGRESS" THEN 20
  ELSE IF st = "FAILED" THEN 0 - 20 ELSE 0
SpecSentimentModifier(se) ==
  IF se = "Positive" THEN 30 ELSE IF se = "Neutral" THEN 5
  ELSE IF se = "Negative" THEN 0 - 30 ELSE 0
SpecClamp(n) == IF n < 0 THEN 0 ELSE IF n > 100 THEN 100 ELSE n
Example(p, st, se) == [priceRange |-> p, status |-> st, sentiment |-> se]

\* C16: for a non-BOOKED status the score is the clamp to [0,100] of base +
\* status modifier + sentiment modifier; $$$$/PENDING/absent = 40,
\* $$$$/COMPLETED/Positive = 80, $$/FAILED/Negative = 0.
C16_ScoreFormula ==
  (scoreOut # NoScore /\ scoreIn.status # "BOOKED")
    => /\ scoreOut = SpecClamp(SpecBase(scoreIn.priceRange)
                                + SpecStatusModifier(scoreIn.status)
                                + SpecSentimentModifier(scoreIn.sentiment))
       /\ scoreIn = Example("$$$$", "PENDING", "none") => scoreOut = 40
       /\ scoreIn = Example("$$$$", "COMPLETED", "Positive") => scoreOut = 80
       /\ scoreIn = Example("$$", "FAILED", "Negative") => scoreOut = 0

C16_Witness ==
  /\ scoreOut = 80
  /\ scoreIn = Example("$$$$", "COMPLETED", "Positive")

\* price tiers in rising order: other < $$ < $$$ < $$$$
TierRank(p) == IF p = "$$$$" THEN 3 ELSE IF p = "$$$" THEN 2 ELSE IF p = "$$" THEN 1 ELSE 0

\* C17: with status and sentiment fixed, a higher price tier never gives a
\* lower score.
C17_PriceMonotone ==
  scoreOut # NoScore
    => \A p \in PriceTiers :
          TierRank(p) >= TierRank(scoreIn.priceRange)
            => calculateLeadScore([scoreIn EXCEPT !.priceRange = p]) >= scoreOut

\* a lead scored strictly lower than the same lead one price tier up
C17_Witness ==
  /\ scoreOut # NoScore
  /\ scoreIn.priceRange = "$$"
  /\ calculateLeadScore([scoreIn EXCEPT !.priceRange = "$$$"]) > scoreOut

\* the result of the retrieval, and the score of a snippet for its lead
Returned == ragOut.snippets
ScoreOf(snippet) == SnippetScore(ragLead, snippet)
InResult(snippet) == \E i \in DOMAIN Returned : Returned[i] = snippet

\* C18: the result has at most 3 snippets, each one a snippet of the given
\* knowledge base, none of them twice.
C18_SizeBound ==
  ragOut.returned
    => /\ Len(Returned) <= 3
       /\ \A i \in DOMAIN Returned : \E k \in DOMAIN ragKb : ragKb[k] = Returned[i]
       /\ \A i \in DOMAIN Returned : \A j \in DOMAIN Returned :
             i # j => Returned[i] # Returned[j]

\* a knowledge base of more than 3 snippets was cut to 3
C18_Witness ==
  ragOut.returned /\ Len(ragKb) > 3 /\ Len(Returned) = 3

\* C19: the result is in non-increasing order of score, and no snippet left
\* out scores more than a returned one.
C19_Ranking ==
  ragOut.returned
    => /\ \A i \in DOMAIN Returned : \A j \in DOMAIN Returned :
             i < j => ScoreOf(Returned[i]) >= ScoreOf(Returned[j])
       /\ \A k \in DOMAIN ragKb : \A i \in DOMAIN Returned :
             ~InResult(ragKb[k]) => ScoreOf(ragKb[k]) <= ScoreOf(Returned[i])

\* the knowledge base was out of order and its best snippet came last, and a
\* snippet was left out
C19_Witness ==
  /\ ragOut.returned
  /\ Len(ragKb) > 3
  /\ \A k \in 1..(Len(ragKb) - 1) : ScoreOf(ragKb[k]) < ScoreOf(ragKb[Len(ragKb)])
  /\ Returned[1] = ragKb[Len(ragKb)]

\* the words of a text, whatever their case
WordsOf(t) == {t[i].word : i \in DOMAIN t}

\* text t contains the words of w in a row, whatever their case
ContainsText(t, w) ==
  \E i \in 0..(Len(t) - Len(w)) : \A k \in 1..Len(w) : t[i + k].word = w[k].word

\* the vocabulary of the specification
Vocabulary ==
  {"busy", "manager", "expensive", "cost", "price", "hostess", "email", "send info",
   "not interested", "later"}

\* notes, cuisine, location and prior transcript text of a lead
CombinedContext(lead) ==
  WordsOf(lead.notes) \cup WordsOf(lead.cuisine) \cup WordsOf(lead.location)
    \cup UNION {WordsOf(lead.transcript[i]) : i \in DOMAIN lead.transcript}

\* the additive score as the specification states it
SpecScore(lead, snippet) ==
    (IF snippet.sourceRestaurant = lead.restaurantName THEN 50 ELSE 0)
  + (IF ContainsText(snippet.content, lead.cuisine) THEN 15 ELSE 0)
  + 10 * Cardinality({w \in Vocabulary :
                         w \in CombinedContext(lead) /\ w \in WordsOf(snippet.content)})
  + (IF lead.status = "FAILED" /\ snippet.category = "objection_handling" THEN 5 ELSE 0)
  + (IF lead.priceRange = "$$$$" /\ snippet.category = "value_proposition" THEN 5 ELSE 0)
  + 1

\* C20: the score of every snippet is 50 (same restaurant) + 15 (content
\* contains the cuisine) + 10 per vocabulary keyword in both the lead's
\* combined context and the content + 5 (FAILED and objection_handling) + 5
\* ($$$$ and value_proposition) + 1; a knowledge base of one snippet of the
\* lead's restaurant returns it, with score at least 51.
C20_AdditiveScore ==
  ragOut.returned
    => /\ \A k \in DOMAIN ragKb : ScoreOf(ragKb[k]) = SpecScore(ragLead, ragKb[k])
       /\ (Len(ragKb) = 1 /\ ragKb[1].sourceRestaurant = ragLead.restaurantName)
            => (Returned = <<ragKb[1]>> /\ ScoreOf(ragKb[1]) >= 51)

\* a snippet scoring on every rule was retrieved first, ahead of a snippet
\* of the lead's own restaurant
C20_Witness ==
  /\ ragOut.returned
  /\ \E k \in DOMAIN ragKb :
        /\ ragKb[k].category = "objection_handling"
        /\ ragLead.status = "FAILED"
        /\ ScoreOf(ragKb[k]) = 10 * 6 + 5 + 1
        /\ Returned[1] = ragKb[k]
  /\ \E k \in DOMAIN ragKb : ragKb[k].sourceRestaurant = ragLead.restaurantName

\* position of a snippet in the knowledge base given to the retrieval
KbIndex(snippet) == CHOOSE k \in DOMAIN ragKb : ragKb[k] = snippet

\* C21: snippets of equal score come out in their knowledge-base order, and
\* a snippet left out never precedes, in the knowledge base, a returned
\* snippet of the same score.
C21_StableTies ==
  ragOut.returned
    => /\ \A i \in DOMAIN Returned : \A j \in DOMAIN Returned :
             (i < j /\ ScoreOf(Returned[i]) = ScoreOf(Returned[j]))
               => KbIndex(Returned[i]) < KbIndex(Returned[j])
       /\ \A k \in DOMAIN ragKb : \A i \in DOMAIN Returned :
             (~InResult(ragKb[k]) /\ ScoreOf(ragKb[k]) = ScoreOf(Returned[i]))
               => KbIndex(Returned[i]) < k

\* three snippets of equal score competed for the last two places
C21_Witness ==
  /\ ragOut.returned
  /\ Len(Returned) = 3
  /\ ScoreOf(Returned[2]) = ScoreOf(Returned[3])
  /\ ScoreOf(Returned[1]) > ScoreOf(Returned[2])
  /\ \E k \in DOMAIN ragKb :
        ~InResult(ragKb[k]) /\ ScoreOf(ragKb[k]) = ScoreOf(Returned[3])

RecorderStopped(s) == sess[s].onstop = <<>> /\ sess'[s].onstop # <<>>

\* C23: the teardown of a call to a real lead hands the recorder's stop
\* handler the transcript committed at that moment, and the handler issues
\* one lead update, classified by that transcript's length (more than 6:
\* COMPLETED/Positive, fewer than 2: FAILED/Negative, else COMPLETED/Neutral).
C23_EndOfCallHeuristic ==
  [][\A s \in Sids :
        /\ RecorderStopped(s) => sess'[s].onstop[1] = transcripts
        /\ (RecorderOnStop(s) /\ realLead)
             => /\ Len(leadUpdates') = Len(leadUpdates) + 1
                /\ leadUpdates'[Len(leadUpdates')] =
                     Heuristic(sess[s].onstop[1]) @@ [sid |-> s]]_vars

\* call attempt s is connecting (awaiting the device or the transport) or is
\* an open call whose recorder has not been stopped by a teardown
Underway(s) ==
  \/ sess[s].pc \in {"mic", "connecting"}
  \/ sess[s].pc = "open" /\ sess[s].rec = "recording"

\* C30: at most one call attempt is connecting or active at any time.
C30_SequentialSessions ==
  Cardinality({s \in Sids : Underway(s)}) <= 1

\* the lead of the call, as the collection ls holds it
Callee(ls) == ls[CHOOSE k \in DOMAIN ls : ls[k].id = call.lead.id]

\* C24: a classification that succeeds with outcome BOOKED leaves the lead
\* BOOKED, with the classified sentiment and score 100; one that succeeds
\* with COMPLETED or FAILED, or fails, changes no lead.
C24_ClassificationEffect ==
  [][/\ \A analysis \in Analyses :
          ClassificationResponse(analysis)
            => IF analysis.outcome = "BOOKED"
               THEN /\ Callee(leads').status = "BOOKED"
                    /\ Callee(leads').sentiment = analysis.sentiment
                    /\ Callee(leads').score = 100
               ELSE leads' = leads
     /\ ClassificationFailure => leads' = leads]_vars

\* the classification said BOOKED with a negative sentiment, and the lead
\* holds both with score 100
C24_Witness ==
  /\ post.analysis.outcome = "BOOKED"
  /\ post.analysis.sentiment = "Negative"
  /\ Callee(leads).status = "BOOKED"
  /\ Callee(leads).sentiment = "Negative"
  /\ Callee(leads).score = 100

\* both updates of the call have been applied
HeuristicApplied == recorder.state = "inactive" /\ recorder.onstop = <<>>
BookedApplied == post.analysis.outcome = "BOOKED"

\* C25: when the classification of a call says BOOKED, the lead is BOOKED
\* with score 100 once the heuristic update and the classification update
\* have both been applied, whichever came first, and the heuristic update
\* never takes a BOOKED lead back to COMPLETED or FAILED.
C25_BookedSupersedes ==
  [][/\ (HeuristicApplied' /\ BookedApplied')
          => (Callee(leads').status = "BOOKED" /\ Callee(leads').score = 100)
     /\ (RecordingSaved /\ Callee(leads).status = "BOOKED")
          => Callee(leads').status = "BOOKED"]_vars

\* C26: a failed classification sets the summary to the fixed degraded-service
\* message and changes no lead: what the heuristic wrote stays.
C26_ClassificationFailure ==
  [][ClassificationFailure
       => /\ summary' = "Analysis temporarily unavailable."
          /\ leads' = leads]_vars

\* the classification failed after the heuristic had written the lead
C26_Witness ==
  /\ post.analysis.outcome = "failed"
  /\ summary = "Analysis temporarily unavailable."
  /\ HeuristicApplied
  /\ Callee(leads).status = "COMPLETED"
  /\ Callee(leads).sentiment = "Positive"
  /\ Callee(leads).recording = "data"

\* the gating condition of the extraction stage as the specification states
\* it, on the transcript that is analysed
SpecGate ==
  /\ Len(call.transcripts)
       + (IF TrimNonEmpty(call.currentInput) THEN 1 ELSE 0)
       + (IF TrimNonEmpty(call.currentOutput) THEN 1 ELSE 0) > 4
  /\ call.onLearn

\* C27: the extraction request is made exactly when the analysed transcript
\* has more than 4 entries and a knowledge sink is there; otherwise no
\* request is made, no learning status is reported and the knowledge base
\* stays as it is.
C27_ExtractionGating ==
  [][/\ post'.pc = "extracting" => SpecGate
     /\ (post.pc = "classifying" /\ post'.pc # "classifying" /\ SpecGate)
          => post'.pc = "extracting"
     /\ ~SpecGate => (learningStatus' = "null" /\ knowledgeBase' = knowledgeBase)]_vars

\* the extraction request was made for 4 committed entries and one partial
C27_Witness ==
  /\ post.pc = "extracting"
  /\ Len(call.transcripts) = 4
  /\ Len(post.fullTranscript) = 5

\* C28: after a failed classification the extraction stage still runs when
\* its gating condition holds; a failed extraction changes neither the
\* summary, nor a lead, nor the knowledge base; and the analysis ends with
\* the in-progress indicator cleared.
C28_StageIsolation ==
  [][/\ (ClassificationFailure /\ SpecGate) => post'.pc = "extracting"
     /\ ExtractionFailure
          => /\ summary' = summary
             /\ leads' = leads
             /\ knowledgeBase' = knowledgeBase
             /\ post'.pc = "done"
     /\ post'.pc = "done" => ~isSummarizing']_vars

\* both stages failed and the analysis is over
C28_Witness ==
  /\ post.pc = "done"
  /\ post.analysis.outcome = "failed"
  /\ learningStatus = "Training skipped due to API timeout."
  /\ summary = "Analysis temporarily unavailable."
  /\ ~isSummarizing

\* the step is an extraction that found a technique
TechniqueFound ==
  \E trainingData \in TrainingData :
     trainingData.found /\ trainingData.content # <<>> /\ ExtractionResponse(trainingData)

\* C29: the knowledge base changes only by an extraction that found a
\* technique, which puts one snippet, sourced from the restaurant of the
\* call's lead, in front of the snippets stored before, or by the dataset
\* reset, which empties it.
C29_KnowledgeGrowth ==
  [][knowledgeBase' # knowledgeBase
       => \/ /\ TechniqueFound
             /\ Len(knowledgeBase') = Len(knowledgeBase) + 1
             /\ Tail(knowledgeBase') = knowledgeBase
             /\ knowledgeBase'[1].sourceRestaurant = RestaurantName(call.lead.id)
          \/ /\ HandleResetData
             /\ knowledgeBase' = <<>>]_vars

\* a snippet was learned in front of two stored ones
C29_Witness ==
  /\ Len(knowledgeBase) = 3
  /\ knowledgeBase[1].sourceRestaurant = RestaurantName(call.lead.id)
  /\ knowledgeBase[1].content = <<Word("thanks")>>
  /\ SubSeq(knowledgeBase, 2, 3) \in StoredKnowledge

\* the snippet was learned from the restaurant of the lead
ExactMatch(snippet) == snippet.sourceRestaurant = ragLead.restaurantName

\* C39: a snippet of the lead's own restaurant is never returned behind a
\* snippet of another restaurant, and is never left out while a snippet of
\* another restaurant is returned.
C39_ExactMatchFirst ==
  ragOut.returned
    => /\ \A i \in DOMAIN Returned : \A j \in DOMAIN Returned :
             (i < j /\ ExactMatch(Returned[j])) => ExactMatch(Returned[i])
       /\ \A k \in DOMAIN ragKb : \A i \in DOMAIN Returned :
             (ExactMatch(ragKb[k]) /\ ~InResult(ragKb[k])) => ExactMatch(Returned[i])

\* C40: every snippet scores at least 1, so the result has min(3, size of
\* the knowledge base) snippets, all of positive score: the filter on
\* positive scores removes nothing.
C40_NeverFilters ==
  ragOut.returned
    => /\ \A k \in DOMAIN ragKb : ScoreOf(ragKb[k]) >= 1
       /\ Len(Returned) = Min(3, Len(ragKb))
       /\ \A i \in DOMAIN Returned : ScoreOf(Returned[i]) > 0

\* a snippet that matches the lead on no rule but the flat one was returned
C40_Witness ==
  /\ ragOut.returned
  /\ Len(ragKb) = 2
  /\ Len(Returned) = 2
  /\ ScoreOf(Returned[2]) = 1


\* ---- lead collection frame -------------------------------------------------

IdsOf(ls) == {ls[k].id : k \in DOMAIN ls}

\* the positions of the collection whose lead a step changes
Changed == {k \in DOMAIN leads : k \notin DOMAIN leads' \/ leads'[k] # leads[k]}

\* C38: a lead update replaces only the lead whose id is the updated lead's:
\* the number of leads, their order and every other lead are unchanged, an
\* update for an id outside the collection (the test-mode lead) changes
\* nothing, and no step other than a dataset reset removes a lead.
C38_LeadCollectionFrame ==
  [][\/ HandleResetData
     \/ /\ Len(leads') = Len(leads)
        /\ \A k \in DOMAIN leads : leads'[k].id = leads[k].id
        /\ \A j, k \in Changed : j = k
        /\ TestLeadId \notin IdsOf(leads')]_vars

\* one lead has been updated and the other is as generated
C38_Witness ==
  /\ leads[1] # generateManhattanLeads[1]
  /\ leads[2] = generateManhattanLeads[2]
  /\ Len(leads) = NumLeads


\* ---- no carry-over between calls -------------------------------------------

\* C36: when a new session starts, the transcript log, the human accumulator
\* and the agent accumulator are all empty, so no partial text of the previous
\* call appears in the next call.
C36_NoCarryOver ==
  [][StartSession => /\ transcripts' = <<>>
                     /\ currentInput' = <<>>
                     /\ currentOutput' = <<>>]_vars


\* ---- session state and the playback active-set -----------------------------

\* C34: while a session is active, the session state is speaking whenever the
\* playback active-set is non-empty.
C34_SpeakingTracksActiveSet ==
  (isActive /\ sources # {}) => status = "speaking"


\* ---- interruption atomicity ------------------------------------------------

\* C32: once an interrupted signal has been handled its three effects are
\* visible together: the playback active-set is empty, the scheduling clock is
\* reset, and a non-empty agent partial has been committed with the truncation
\* marker and cleared.
C32_InterruptionAtomic ==
  [][InterruptedHandled
       => /\ sources' = {}
          /\ nextStartTime' = 0
          /\ currentOutput # <<>>
               => /\ currentOutput' = <<>>
                  /\ transcripts' # <<>>
                  /\ transcripts'[Len(transcripts')] =
                       Entry("model", currentOutput \o TruncationMarker)]_vars

\* ---- transcript text conservation ------------------------------------------

\* the text without the dots of a truncation marker
Unmarked(t) == SelectSeq(t, LAMBDA c : c # Dot)

\* the texts of the entries of one role, concatenated in order
RECURSIVE Committed(_, _)
Committed(log, r) ==
  IF log = <<>> THEN <<>>
  ELSE (IF Head(log).role = r THEN Unmarked(Head(log).text) ELSE <<>>)
         \o Committed(Tail(log), r)

\* all the text of one role: committed entries, then the accumulator
TextOf(log, r, acc) == Committed(log, r) \o acc

\* C35: within a session, the committed texts of a role followed by the
\* role's accumulator are the deltas received for that role, in order: every
\* message extends that text by its delta for the role and by nothing else.
C35_TextConservation ==
  [][\A s \in Sids : \A m \in Messages :
        OnMessage(s, m)
          => /\ TextOf(transcripts', "user", currentInput')
                  = TextOf(transcripts, "user", currentInput) \o m.inputT
             /\ TextOf(transcripts', "model", currentOutput')
                  = TextOf(transcripts, "model", currentOutput) \o m.outputT]_vars


\* ---- arrival-ordered scheduling --------------------------------------------

\* C33: when handlers of audio messages and of an interruption interleave at
\* the await, buffers that arrived after the same interruption are started in
\* arrival order, each no earlier than the end of the one before it, and no
\* buffer that arrived before an interruption is in the active-set after that
\* interruption was handled.
C33_ArrivalOrdered ==
  /\ \A x, y \in scheduled :
        (x.id < y.id /\ x.epoch = y.epoch) => x.start + x.dur <= y.start
  /\ \A x \in sources : x.epoch = epoch


\* ---- session start marks the lead ------------------------------------------

\* the step is the onopen callback of some session
Opened == \E s \in Sids : sess[s].pc = "connecting" /\ sess'[s].pc = "open"

\* the lead of the call, in the collection
Called(ls) == {k \in DOMAIN ls : ls[k].id = call.lead.id}

\* C37: when the transport opens the session state becomes listening and the
\* session active; for a lead of the collection one update is issued that
\* sets the lead IN_PROGRESS with its score recomputed and leaves the other
\* leads alone; in test mode no step, at open or at teardown, issues an
\* update or changes the collection.
C37_OpenMarksLead ==
  [][/\ Opened
          => /\ status' = "listening"
             /\ isActive'
             /\ realLead
                  => /\ Len(leadUpdates') = Len(leadUpdates) + 1
                     /\ Called(leads') # {}
                     /\ \A k \in DOMAIN leads :
                           IF k \in Called(leads)
                           THEN /\ leads'[k].status = "IN_PROGRESS"
                                /\ leads'[k].score = calculateLeadScore(leads'[k])
                                /\ leads'[k].priceRange = leads[k].priceRange
                           ELSE leads'[k] = leads[k]
     /\ ~realLead => (leadUpdates' = leadUpdates /\ leads' = leads)]_vars

\* a lead whose earlier call failed is called again and its session is open
C37_Witness ==
  /\ realLead
  /\ isActive
  /\ status = "listening"
  /\ call.lead.status = "FAILED"
  /\ \E k \in DOMAIN leads :
        /\ leads[k].id = call.lead.id
        /\ leads[k].status = "IN_PROGRESS"
        /\ leads[k].score # call.lead.score


\* ---- persistence fallback --------------------------------------------------

\* C31: once the mount effect has run, a stored leads value that does not
\* parse has given the regenerated default dataset, no stored leads value has
\* given it as well, and a stored knowledge value that does not parse has
\* given an empty knowledge base.
C31_PersistenceFallback ==
  mounted
    => /\ (Stored(savedLeads) /\ ~JsonParse(savedLeads).ok) => leads = generateManhattanLeads
       /\ savedLeads = NoItem => leads = generateManhattanLeads
       /\ (savedKnowledge # NoItem /\ ~JsonParse(savedKnowledge).ok) => knowledgeBase = <<>>

\* the app has started over a leads value that is not JSON, next to a
\* knowledge base that was stored by an earlier run
C31_Witness ==
  /\ mounted
  /\ savedLeads = NotJson
  /\ leads = generateManhattanLeads
  /\ Len(knowledgeBase) = 2

====
